---- MODULE Spec2Model ----
(***************************************************************************)
(* Model of stock_dashboard.py: the Streamlit script that fetches price    *)
(* history and fundamentals from RapidAPI yahoo-finance15, extracts key    *)
(* metrics, asks the LLM for three narratives and renders the result.      *)
(*                                                                         *)
(* Representation of Python values.                                        *)
(*  - A dict with optional keys is a record over all keys it may carry;    *)
(*    each field is <<>> (key absent) or <<v>> (key present with value v). *)
(*    d.get(k, default) is Get(d, k, default); "k in d" is Has(d, k).      *)
(*  - JSON scalars are represented by their Python str() text ("149"),     *)
(*    which is what both the f-string and st.json display.                 *)
(*  - An exception is a record [type, msg].                                *)
(*  - The typographic quotes and the en dash of the source's string        *)
(*    literals are written in ASCII.                                       *)
(***************************************************************************)
EXTENDS Integers, Sequences, FiniteSets, TLC

\* ---------------------------------------------------------------- bounds
MaxAttempts == 3      \* largest value of the attempts parameter explored
MaxPoints   == 3      \* most price points in one provider response
MaxDate     == 2      \* epoch-second timestamps are drawn from 1..MaxDate
MaxEarnings == 2      \* most candidate earnings dates in one snapshot

\* ------------------------------------------------------- dict primitives
Has(d, k) == d[k] # <<>>

Get(d, k, default) == IF d[k] # <<>> THEN d[k][1] ELSE default

Opt(S) == {<<>>} \cup {<<v>> : v \in S}

\* The empty dict {} at each type it is used at as a .get default.
EmptyWrapper == [raw |-> <<>>, fmt |-> <<>>]

EmptyPrice == [regularMarketPreviousClose |-> <<>>, regularMarketOpen |-> <<>>]

EmptySummary ==
  [bid |-> <<>>, dayLow |-> <<>>, dayHigh |-> <<>>,
   averageVolume |-> <<>>, marketCap |-> <<>>]

EmptyCalendarEvents == [earnings |-> <<>>]

EmptyFinancialData == [targetMeanPrice |-> <<>>]

EmptySnapshot ==
  [price |-> <<>>, summaryDetail |-> <<>>, calendarEvents |-> <<>>,
   financialData |-> <<>>, quoteType |-> <<>>]

NA == "N/A"

\* ------------------------------------------------- extract_key_metrics
\* f"{day_low} - {day_high}"
DayRange(day_low, day_high) == day_low \o " - " \o day_high

\* calendar[0].get("fmt", "N/A") if calendar else "N/A"
EarningsDate_last(calendar) ==
  IF calendar # <<>> THEN Get(calendar[Len(calendar)], "fmt", NA) ELSE NA

EarningsDate(calendar) ==
  IF calendar # <<>> THEN Get(calendar[1], "fmt", NA) ELSE NA

\* summary.get("marketCap", {}).get("fmt", "N/A")
MarketCap(summary) == Get(Get(summary, "marketCap", EmptyWrapper), "fmt", NA)

extract_key_metrics(snapshot) ==
  LET price    == Get(snapshot, "price", EmptyPrice)
      summary  == Get(snapshot, "summaryDetail", EmptySummary)
      calendar == Get(Get(snapshot, "calendarEvents", EmptyCalendarEvents),
                      "earnings", <<>>)
      target   == Get(Get(snapshot, "financialData", EmptyFinancialData),
                      "targetMeanPrice", EmptyWrapper)
      day_low  == Get(Get(summary, "dayLow", EmptyWrapper), "raw", NA)
      day_high == Get(Get(summary, "dayHigh", EmptyWrapper), "raw", NA)
  IN  ("Previous Close" :>
         Get(Get(price, "regularMarketPreviousClose", EmptyWrapper), "raw", NA))
   @@ ("Open" :> Get(Get(price, "regularMarketOpen", EmptyWrapper), "raw", NA))
   @@ ("Bid" :> Get(Get(summary, "bid", EmptyWrapper), "raw", NA))
   @@ ("Day's Range" :> DayRange(day_low, day_high))
   @@ ("Average Volume" :>
         Get(Get(summary, "averageVolume", EmptyWrapper), "raw", NA))
   @@ ("Market Cap" :> MarketCap(summary))
   @@ ("Earnings Date" :> EarningsDate(calendar))
   @@ ("1-Year Target Estimate" :> Get(target, "raw", NA))

CanonicalKeys ==
  {"Previous Close", "Open", "Bid", "Day's Range", "Average Volume",
   "Market Cap", "Earnings Date", "1-Year Target Estimate"}

NoMetrics == [k \in CanonicalKeys |-> ""]

\* ------------------------------------------- fundamentals payloads (input)
\* A {raw, fmt} wrapper carrying the given texts.
W(r, f) == [raw |-> <<r>>, fmt |-> <<f>>]

\* absent key, empty wrapper, wrapper with raw only, full wrapper
WrapperOpts(r, f) == Opt({EmptyWrapper, [raw |-> <<r>>, fmt |-> <<>>], W(r, f)})

\* absent key or full wrapper
WrapperOpts2(r, f) == Opt({W(r, f)})

EarningsEntries ==
  {[fmt |-> <<"2024-05-01">>], [fmt |-> <<"2024-05-08">>], [fmt |-> <<>>]}

EarningsLists ==
  UNION {[1..n -> EarningsEntries] : n \in 0..MaxEarnings}

PriceDicts ==
  [regularMarketPreviousClose : WrapperOpts2("150.0", "150.00"),
   regularMarketOpen          : WrapperOpts2("151.2", "151.20")]

SummaryDicts ==
  [bid           : WrapperOpts2("150.5", "150.50"),
   dayLow        : WrapperOpts2("149", "149.00"),
   dayHigh       : WrapperOpts2("152", "152.00"),
   averageVolume : WrapperOpts2("1000000", "1M"),
   marketCap     : WrapperOpts("2500000000000", "2.5T")]

CalendarDicts == [earnings : Opt(EarningsLists)]

FinancialDicts == [targetMeanPrice : WrapperOpts("160.0", "160.00")]

\* Every fundamentals snapshot the metric extraction is exercised on;
\* quoteType is a provider field the extractor does not map.
AllSnapshots ==
  [price          : Opt(PriceDicts),
   summaryDetail  : Opt(SummaryDicts),
   calendarEvents : Opt(CalendarDicts),
   financialData  : Opt(FinancialDicts),
   quoteType      : Opt({"EQUITY"})]

\* A fully populated snapshot, and the same without its "price" section.
FullSnapshot ==
  [price          |-> <<[regularMarketPreviousClose |-> <<W("150.0", "150.00")>>,
                         regularMarketOpen |-> <<W("151.2", "151.20")>>]>>,
   summaryDetail  |-> <<[bid           |-> <<W("150.5", "150.50")>>,
                         dayLow        |-> <<W("149", "149.00")>>,
                         dayHigh       |-> <<W("152", "152.00")>>,
                         averageVolume |-> <<W("1000000", "1M")>>,
                         marketCap     |-> <<W("2500000000000", "2.5T")>>]>>,
   calendarEvents |-> <<[earnings |-> << <<[fmt |-> <<"2024-05-01">>],
                                           [fmt |-> <<"2024-05-08">>]>> >>]>>,
   financialData  |-> <<[targetMeanPrice |-> <<W("160.0", "160.00")>>]>>,
   quoteType      |-> <<"EQUITY">>]

NoPriceSnapshot == [FullSnapshot EXCEPT !.price = <<>>]

\* The snapshots the whole pipeline is explored with.
SampleSnapshots == {FullSnapshot, NoPriceSnapshot}

\* ------------------------------------------------------------ exceptions
Exc(type, msg) == [type |-> type, msg |-> msg]

NoExc == Exc("none", "")

Returned == Exc("returned", "")

DataFetchError(msg) == Exc("DataFetchError", msg)

Interval == "1d"

TimeoutPrice == DataFetchError("RapidAPI server timed out. Try again shortly.")

TimeoutInfo ==
  DataFetchError("RapidAPI server timed out when fetching fundamentals.")

QuotaExceeded == DataFetchError("RapidAPI quota exceeded (HTTP 429).")

TickerNotFound(t) == DataFetchError("Ticker '" \o t \o "' not found.")

NoPriceData(t) ==
  DataFetchError("No price data returned for '" \o t \o "' at interval '"
                 \o Interval \o "'.")

NoFundamentals(t) == DataFetchError("No fundamentals returned for '" \o t \o "'.")

\* Exceptions the code does not raise itself: any requests exception other
\* than ReadTimeout (ConnectionError, ConnectTimeout, ...), resp.json() on a
\* body that is not JSON, resp read after a loop that never assigned it, and
\* any error of the OpenAI client.
ConnectionError ==
  Exc("ConnectionError",
      "HTTPSConnectionPool(host='yahoo-finance15.p.rapidapi.com', port=443): Max retries exceeded")

JSONDecodeError == Exc("JSONDecodeError", "Expecting value: line 1 column 1 (char 0)")

UnboundLocalError ==
  Exc("UnboundLocalError", "local variable 'resp' referenced before assignment")

OpenAIError == Exc("APIConnectionError", "Connection error.")

\* ------------------------------------------------------ provider responses
Tickers == {"AAPL", "ZZZZ"}

StatusCodes == {200, 404, 429, 500}

\* Epoch-second timestamps half a day apart.
EpochSeconds == {k * (12 * 3600) : k \in 1..MaxDate}

Closes == {100, 101}

Items == [date : EpochSeconds, close : Closes]

ItemLists == UNION {[1..n -> Items] : n \in 0..MaxPoints}

\* The JSON document of a price-history answer: {} (or null, which the code
\* treats alike), {"meta": ...}, {"items": []}, {"items": [...]}.
PriceData(itemLists) == [items : Opt(itemLists), meta : Opt({"history"})]

EmptyData == [items |-> <<>>, meta |-> <<>>]

\* A response body: text that is not JSON, or a JSON document.
NotJson(empty) == [json |-> FALSE, data |-> empty]

Json(d) == [json |-> TRUE, data |-> d]

PriceBodies(itemLists) ==
  {NotJson(EmptyData)} \cup {Json(d) : d \in PriceData(itemLists)}

InfoBodies(snapshots) ==
  {NotJson(EmptySnapshot)} \cup {Json(d) : d \in snapshots}

Responses(bodies) == [status_code : StatusCodes, body : bodies]

\* The item lists the whole pipeline is explored with.
SampleItemLists ==
  {<<>>, <<[date |-> 86400, close |-> 101], [date |-> 43200, close |-> 100]>>}

\* ------------------------------------------------ get_stock_data (pure part)
\* pd.to_datetime(d["date"], unit="s"): the calendar day and the second of
\* that day.
to_datetime(s) == [day |-> s \div (24 * 3600), sec |-> s % (24 * 3600)]

TimestampLeq(a, b) == a.day < b.day \/ (a.day = b.day /\ a.sec <= b.sec)

\* .assign(Date=...).set_index("Date")[["close"]].rename(columns={"close": "Close"})
Rows(items) ==
  [k \in 1..Len(items) |->
     [Date |-> to_datetime(items[k].date), Close |-> items[k].close]]

IsSortedByDate(df) ==
  \A k \in 1..(Len(df) - 1) : TimestampLeq(df[k].Date, df[k + 1].Date)

Permutations_(n) == {p \in [1..n -> 1..n] : \A a, b \in 1..n : a # b => p[a] # p[b]}

\* .sort_index() with its default kind="quicksort", which is not stable: the
\* rows in ascending index order, rows of equal index in any order.
sort_index_none(df) == {df}

sort_index(df) ==
  {[k \in 1..Len(df) |-> df[p[k]]] : p \in
     {q \in Permutations_(Len(df)) :
        IsSortedByDate([k \in 1..Len(df) |-> df[q[k]]])}}

\* not data or "items" not in data or not data["items"]
NoItems_missingOnly(data) == data = EmptyData \/ ~Has(data, "items")

NoItems(data) ==
  data = EmptyData \/ ~Has(data, "items") \/ data.items[1] = <<>>

Outcome(exc, value) == [exc |-> exc, value |-> value]

\* Lines 41-58: what get_stock_data does with the response it received.
PriceOutcomes(resp, t) ==
  IF resp.status_code = 429 THEN {Outcome(QuotaExceeded, <<>>)}
  ELSE IF resp.status_code = 404 THEN {Outcome(TickerNotFound(t), <<>>)}
  ELSE IF ~resp.body.json THEN {Outcome(JSONDecodeError, <<>>)}
  ELSE IF NoItems(resp.body.data) THEN {Outcome(NoPriceData(t), <<>>)}
  ELSE {Outcome(Returned, df) : df \in sort_index(Rows(resp.body.data.items[1]))}

\* Lines 74-80: what get_stock_info does with the response it received.
InfoOutcomes_no429(resp, t) ==
  IF ~resp.body.json THEN {Outcome(JSONDecodeError, EmptySnapshot)}
  ELSE IF ~Has(resp.body.data, "price") THEN {Outcome(NoFundamentals(t), EmptySnapshot)}
  ELSE {Outcome(Returned, resp.body.data)}

InfoOutcomes(resp, t) ==
  IF resp.status_code = 429 THEN {Outcome(QuotaExceeded, EmptySnapshot)}
  ELSE IF ~resp.body.json THEN {Outcome(JSONDecodeError, EmptySnapshot)}
  ELSE IF ~Has(resp.body.data, "price") THEN {Outcome(NoFundamentals(t), EmptySnapshot)}
  ELSE {Outcome(Returned, resp.body.data)}

\* if i == attempts - 1
LastAttempt_offByOne(i, n) == i = n

LastAttempt(i, n) == i = n - 1

\* What a ReadTimeout in iteration i of the retry loop leads to: the
\* DataFetchError of the last attempt, another iteration after time.sleep(2),
\* or the end of the loop with resp never assigned.
AfterTimeout(i, n, timeoutExc) ==
  IF LastAttempt(i, n) THEN Outcome(timeoutExc, "raise")
  ELSE IF i + 1 < n THEN Outcome(NoExc, "retry")
  ELSE Outcome(UnboundLocalError, "raise")

\* ------------------------------------------------------------------ state
VARIABLES
  ticker,       \* st.text_input value ("" while nothing is entered)
  attempts,     \* the attempts parameter of both fetch helpers
  clicked,      \* st.button("Get Insights") is true in the current script run
  pc,           \* the statement the current script run is at ("idle": run over)
  steps,        \* the main action's steps begun in the current run, in order
  priceLog,     \* outcome of every requests.get of the current get_stock_data
  infoLog,      \* outcome of every requests.get of the current get_stock_info
  priceResult,  \* how get_stock_data ended in the current run
  infoResult,   \* how get_stock_info ended in the current run
  stock_data,   \* the DataFrame get_stock_data returned (<<>>: unassigned)
  info,         \* the dict get_stock_info returned
  key_metrics,  \* the dict extract_key_metrics returned
  ui,           \* what the page shows: the error box and the other elements
  priceCache,   \* st.cache_data of get_stock_data, by ticker (<<>>: no entry)
  infoCache,    \* st.cache_data of get_stock_info, by ticker (<<>>: no entry)
  factCached    \* st.cache_data of get_random_stock_fact holds an entry

vars ==
  <<ticker, attempts, clicked, pc, steps, priceLog, infoLog, priceResult,
    infoResult, stock_data, info, key_metrics, ui, priceCache, infoCache,
    factCached>>

DefaultAttempts == 2

NoBox == [widget |-> "none", text |-> ""]

BlankPage == [error |-> NoBox, elems |-> {}]

\* except DataFetchError as e: st.error(f"X {e}")
\* except Exception as e:      st.error(f"Unexpected error: {e}")
ErrorBox(e) ==
  IF e.type = "DataFetchError"
  THEN [widget |-> "st.error", text |-> "X " \o e.msg]
  ELSE [widget |-> "st.error", text |-> "Unexpected error: " \o e.msg]

\* An exception no handler catches: Streamlit shows its type, its text and
\* the traceback.
UncaughtBox(e) ==
  [widget |-> "st.exception",
   text |-> "Traceback (most recent call last): " \o e.type \o ": " \o e.msg]

RenderedElems ==
  {"tabs", "explanation", "chart", "recent_table", "summary", "sentiment",
   "key_metrics"}

\* The main action's control flow: the step that follows `step`, which ended
\* normally (ok) or by an exception. Both except clauses end in st.stop().
MainFlow_noStop(step, ok) ==
  CASE step = "price"     -> "info"
    [] step = "info"      -> "extract"
    [] step = "extract"   -> "summary"
    [] step = "summary"   -> "explain"
    [] step = "explain"   -> "sentiment"
    [] step = "sentiment" -> "render"
    [] OTHER              -> "idle"

MainFlow_priceErrorSwallowed(step, ok) ==
  IF ~ok /\ step # "price" THEN "idle"
  ELSE CASE step = "price"     -> "info"
         [] step = "info"      -> "extract"
         [] step = "extract"   -> "summary"
         [] step = "summary"   -> "explain"
         [] step = "explain"   -> "sentiment"
         [] step = "sentiment" -> "render"
         [] OTHER              -> "idle"

MainFlow(step, ok) ==
  IF ~ok THEN "idle"
  ELSE CASE step = "price"     -> "info"
         [] step = "info"      -> "extract"
         [] step = "extract"   -> "summary"
         [] step = "summary"   -> "explain"
         [] step = "explain"   -> "sentiment"
         [] step = "sentiment" -> "render"
         [] OTHER              -> "idle"

\* Control passes to `step`.
Goto(step) ==
  /\ pc' = step
  /\ steps' = IF step = "idle" THEN steps ELSE Append(steps, step)

runVars == <<priceLog, infoLog, priceResult, infoResult, stock_data, info, key_metrics>>

cacheVars == <<priceCache, infoCache, factCached>>

\* A script run starts from the top: the page is rebuilt and no variable of
\* an earlier run exists.
StartRun(t, page, isClicked) ==
  /\ ticker' = t
  /\ clicked' = isClicked
  /\ steps' = <<>>
  /\ priceLog' = <<>>
  /\ infoLog' = <<>>
  /\ priceResult' = NoExc
  /\ infoResult' = NoExc
  /\ stock_data' = <<>>
  /\ info' = EmptySnapshot
  /\ key_metrics' = NoMetrics
  /\ ui' = page
  /\ pc' = IF t # "" THEN "fact" ELSE "idle"
  /\ UNCHANGED attempts

Init ==
  /\ ticker = ""
  /\ attempts \in 1..MaxAttempts
  /\ clicked = FALSE
  /\ pc = "idle"
  /\ steps = <<>>
  /\ priceLog = <<>>
  /\ infoLog = <<>>
  /\ priceResult = NoExc
  /\ infoResult = NoExc
  /\ stock_data = <<>>
  /\ info = EmptySnapshot
  /\ key_metrics = NoMetrics
  /\ ui = BlankPage
  /\ priceCache = [t \in Tickers |-> <<>>]
  /\ infoCache = [t \in Tickers |-> <<>>]
  /\ factCached = FALSE

\* ----------------------------------------------------------- user actions
\* The user edits the ticker field: the script reruns with no button pressed.
EnterTicker(t) ==
  /\ pc = "idle"
  /\ t # ticker
  /\ StartRun(t, BlankPage, FALSE)
  /\ UNCHANGED cacheVars

\* if st.button("Clear Cache"): st.cache_data.clear(); st.success(...)
ClickClearCache ==
  /\ pc = "idle"
  /\ priceCache' = [t \in Tickers |-> <<>>]
  /\ infoCache' = [t \in Tickers |-> <<>>]
  /\ factCached' = FALSE
  /\ StartRun(ticker, [BlankPage EXCEPT !.elems = {"cache_cleared"}], FALSE)

\* The user presses "Get Insights": the script reruns with the button true.
ClickGetInsights ==
  /\ pc = "idle"
  /\ StartRun(ticker, BlankPage, TRUE)
  /\ UNCHANGED cacheVars

\* A cache entry outlives its ttl (3600 s, 43200 s, 3600 s); it is seen at the
\* next lookup, so expiry between two script runs covers every case.
ExpirePrice(t) ==
  /\ pc = "idle"
  /\ priceCache[t] # <<>>
  /\ priceCache' = [priceCache EXCEPT ![t] = <<>>]
  /\ UNCHANGED <<ticker, attempts, clicked, pc, steps, runVars, ui, infoCache, factCached>>

ExpireInfo(t) ==
  /\ pc = "idle"
  /\ infoCache[t] # <<>>
  /\ infoCache' = [infoCache EXCEPT ![t] = <<>>]
  /\ UNCHANGED <<ticker, attempts, clicked, pc, steps, runVars, ui, priceCache, factCached>>

ExpireFact ==
  /\ pc = "idle"
  /\ factCached
  /\ factCached' = FALSE
  /\ UNCHANGED <<ticker, attempts, clicked, pc, steps, runVars, ui, priceCache, infoCache>>

\* --------------------------------------------------- line 168-169: the fact
\* if ticker: st.info(f"Did you know? {get_random_stock_fact()}"), then the
\* main action when the button is true.
FactShown ==
  /\ ui' = [ui EXCEPT !.elems = @ \cup {"fact"}]
  /\ IF clicked THEN Goto("price") ELSE Goto("idle")
  /\ UNCHANGED <<ticker, attempts, clicked, runVars, priceCache, infoCache>>

FactFromCache ==
  /\ pc = "fact"
  /\ factCached
  /\ FactShown
  /\ UNCHANGED factCached

FactFromLLM ==
  /\ pc = "fact"
  /\ ~factCached
  /\ factCached' = TRUE
  /\ FactShown

FactLLMError ==
  /\ pc = "fact"
  /\ ~factCached
  /\ ui' = [ui EXCEPT !.error = UncaughtBox(OpenAIError)]
  /\ Goto("idle")
  /\ UNCHANGED <<ticker, attempts, clicked, runVars, cacheVars>>

\* ------------------------------------------------- the two fetch helpers
\* What one requests.get of a fetch helper ended in: ReadTimeout, another
\* requests exception, or a response. `none` fills the body of the first two.
ReadTimeout(none) == [event |-> "ReadTimeout", status_code |-> 0, body |-> none]

RequestFailed(none) == [event |-> "ConnectionError", status_code |-> 0, body |-> none]

Answered(resp) ==
  [event |-> "response", status_code |-> resp.status_code, body |-> resp.body]

\* The exception e leaves the try block of the main action during `step`:
\* the matching except clause shows it and stops the run.
FetchRaises(step, e) ==
  /\ ui' = [ui EXCEPT !.error = ErrorBox(e)]
  /\ Goto(MainFlow(step, FALSE))

\* stock_data = get_stock_data(ticker), answered by st.cache_data.
PriceCacheHit ==
  /\ pc = "price"
  /\ priceCache[ticker] # <<>>
  /\ stock_data' = priceCache[ticker]
  /\ priceResult' = Returned
  /\ Goto(MainFlow("price", TRUE))
  /\ UNCHANGED <<ticker, attempts, clicked, priceLog, infoLog, infoResult, info,
                 key_metrics, ui, cacheVars>>

\* requests.get raises ReadTimeout in iteration i = Len(priceLog) of the loop.
PriceTimeout ==
  /\ pc = "price"
  /\ priceCache[ticker] = <<>>
  /\ Len(priceLog) < attempts
  /\ priceLog' = Append(priceLog, ReadTimeout(NotJson(EmptyData)))
  /\ LET o == AfterTimeout(Len(priceLog), attempts, TimeoutPrice)
     IN  IF o.value = "retry"
         THEN UNCHANGED <<pc, steps, priceResult, ui>>
         ELSE priceResult' = o.exc /\ FetchRaises("price", o.exc)
  /\ UNCHANGED <<ticker, attempts, clicked, infoLog, infoResult, stock_data, info,
                 key_metrics, cacheVars>>

\* requests.get raises an exception that is not a ReadTimeout.
PriceRequestFails ==
  /\ pc = "price"
  /\ priceCache[ticker] = <<>>
  /\ Len(priceLog) < attempts
  /\ priceLog' = Append(priceLog, RequestFailed(NotJson(EmptyData)))
  /\ priceResult' = ConnectionError
  /\ FetchRaises("price", ConnectionError)
  /\ UNCHANGED <<ticker, attempts, clicked, infoLog, infoResult, stock_data, info,
                 key_metrics, cacheVars>>

\* requests.get returns resp: break, then lines 41-58.
PriceResponse(resp) ==
  /\ pc = "price"
  /\ priceCache[ticker] = <<>>
  /\ Len(priceLog) < attempts
  /\ priceLog' = Append(priceLog, Answered(resp))
  /\ \E o \in PriceOutcomes(resp, ticker) :
       /\ priceResult' = o.exc
       /\ IF o.exc = Returned
          THEN /\ stock_data' = o.value
               /\ priceCache' = [priceCache EXCEPT ![ticker] = o.value]
               /\ Goto(MainFlow("price", TRUE))
               /\ UNCHANGED ui
          ELSE /\ FetchRaises("price", o.exc)
               /\ UNCHANGED <<stock_data, priceCache>>
  /\ UNCHANGED <<ticker, attempts, clicked, infoLog, infoResult, info,
                 key_metrics, infoCache, factCached>>

\* info = get_stock_info(ticker), answered by st.cache_data.
InfoCacheHit ==
  /\ pc = "info"
  /\ infoCache[ticker] # <<>>
  /\ info' = infoCache[ticker][1]
  /\ infoResult' = Returned
  /\ Goto(MainFlow("info", TRUE))
  /\ UNCHANGED <<ticker, attempts, clicked, priceLog, infoLog, priceResult,
                 stock_data, key_metrics, ui, cacheVars>>

InfoTimeout ==
  /\ pc = "info"
  /\ infoCache[ticker] = <<>>
  /\ Len(infoLog) < attempts
  /\ infoLog' = Append(infoLog, ReadTimeout(NotJson(EmptySnapshot)))
  /\ LET o == AfterTimeout(Len(infoLog), attempts, TimeoutInfo)
     IN  IF o.value = "retry"
         THEN UNCHANGED <<pc, steps, infoResult, ui>>
         ELSE infoResult' = o.exc /\ FetchRaises("info", o.exc)
  /\ UNCHANGED <<ticker, attempts, clicked, priceLog, priceResult, stock_data, info,
                 key_metrics, cacheVars>>

InfoRequestFails ==
  /\ pc = "info"
  /\ infoCache[ticker] = <<>>
  /\ Len(infoLog) < attempts
  /\ infoLog' = Append(infoLog, RequestFailed(NotJson(EmptySnapshot)))
  /\ infoResult' = ConnectionError
  /\ FetchRaises("info", ConnectionError)
  /\ UNCHANGED <<ticker, attempts, clicked, priceLog, priceResult, stock_data, info,
                 key_metrics, cacheVars>>

InfoResponse(resp) ==
  /\ pc = "info"
  /\ infoCache[ticker] = <<>>
  /\ Len(infoLog) < attempts
  /\ infoLog' = Append(infoLog, Answered(resp))
  /\ \E o \in InfoOutcomes(resp, ticker) :
       /\ infoResult' = o.exc
       /\ IF o.exc = Returned
          THEN /\ info' = o.value
               /\ infoCache' = [infoCache EXCEPT ![ticker] = <<o.value>>]
               /\ Goto(MainFlow("info", TRUE))
               /\ UNCHANGED ui
          ELSE /\ FetchRaises("info", o.exc)
               /\ UNCHANGED <<info, infoCache>>
  /\ UNCHANGED <<ticker, attempts, clicked, priceLog, priceResult, stock_data,
                 key_metrics, priceCache, factCached>>

\* ------------------------------------------ lines 183-224 of the main action
\* key_metrics = extract_key_metrics(info)
ExtractMetrics ==
  /\ pc = "extract"
  /\ key_metrics' = extract_key_metrics(info)
  /\ Goto(MainFlow("extract", TRUE))
  /\ UNCHANGED <<ticker, attempts, clicked, priceLog, infoLog, priceResult,
                 infoResult, stock_data, info, ui, cacheVars>>

\* One of summarize_stock_data, generate_explanation, generate_sentiment
\* returns its text, from the LLM or (the first two) from st.cache_data.
NarrativeReturns(step) ==
  /\ pc = step
  /\ Goto(MainFlow(step, TRUE))
  /\ UNCHANGED <<ticker, attempts, clicked, runVars, ui, cacheVars>>

\* The OpenAI call of the step raises; nothing catches it.
NarrativeRaises(step) ==
  /\ pc = step
  /\ ui' = [ui EXCEPT !.error = UncaughtBox(OpenAIError)]
  /\ Goto("idle")
  /\ UNCHANGED <<ticker, attempts, clicked, runVars, cacheVars>>

SummaryReturns == NarrativeReturns("summary")

SummaryRaises == NarrativeRaises("summary")

ExplanationReturns == NarrativeReturns("explain")

ExplanationRaises == NarrativeRaises("explain")

SentimentReturns == NarrativeReturns("sentiment")

SentimentRaises == NarrativeRaises("sentiment")

\* Lines 188-224: the recent-price table, the chart and the two tabs.
Render ==
  /\ pc = "render"
  /\ ui' = [ui EXCEPT !.elems = @ \cup RenderedElems]
  /\ Goto(MainFlow("render", TRUE))
  /\ UNCHANGED <<ticker, attempts, clicked, runVars, cacheVars>>

\* ---------------------------------------------------------- specifications
Next ==
  \/ \E t \in Tickers \cup {""} : EnterTicker(t)
  \/ ClickClearCache
  \/ ClickGetInsights
  \/ \E t \in Tickers : ExpirePrice(t)
  \/ \E t \in Tickers : ExpireInfo(t)
  \/ ExpireFact
  \/ FactFromCache
  \/ FactFromLLM
  \/ FactLLMError
  \/ PriceCacheHit
  \/ PriceTimeout
  \/ PriceRequestFails
  \/ \E resp \in Responses(PriceBodies(SampleItemLists)) : PriceResponse(resp)
  \/ InfoCacheHit
  \/ InfoTimeout
  \/ InfoRequestFails
  \/ \E resp \in Responses(InfoBodies(SampleSnapshots)) : InfoResponse(resp)
  \/ ExtractMetrics
  \/ SummaryReturns
  \/ SummaryRaises
  \/ ExplanationReturns
  \/ ExplanationRaises
  \/ SentimentReturns
  \/ SentimentRaises
  \/ Render

Spec == Init /\ [][Next]_vars

\* get_stock_data on every price-history answer within the bounds: the run has
\* reached line 174 with nothing cached.
InitPrice ==
  /\ ticker \in Tickers
  /\ attempts = DefaultAttempts
  /\ clicked = TRUE
  /\ pc = "price"
  /\ steps = <<"price">>
  /\ priceLog = <<>>
  /\ infoLog = <<>>
  /\ priceResult = NoExc
  /\ infoResult = NoExc
  /\ stock_data = <<>>
  /\ info = EmptySnapshot
  /\ key_metrics = NoMetrics
  /\ ui = [BlankPage EXCEPT !.elems = {"fact"}]
  /\ priceCache = [t \in Tickers |-> <<>>]
  /\ infoCache = [t \in Tickers |-> <<>>]
  /\ factCached = TRUE

NextPrice == \E resp \in Responses(PriceBodies(ItemLists)) : PriceResponse(resp)

SpecPrice == InitPrice /\ [][NextPrice]_vars

\* extract_key_metrics on every snapshot within the bounds: control is at
\* line 183 with info holding the snapshot.
InitMetrics ==
  /\ ticker \in Tickers
  /\ attempts = DefaultAttempts
  /\ clicked = TRUE
  /\ pc = "extract"
  /\ steps = <<"price", "info", "extract">>
  /\ priceLog = <<>>
  /\ infoLog = <<>>
  /\ priceResult = Returned
  /\ infoResult = Returned
  /\ stock_data = <<>>
  /\ info \in AllSnapshots
  /\ key_metrics = NoMetrics
  /\ ui = [BlankPage EXCEPT !.elems = {"fact"}]
  /\ priceCache = [t \in Tickers |-> <<>>]
  /\ infoCache = [t \in Tickers |-> <<>>]
  /\ factCached = TRUE

NextMetrics == ExtractMetrics

SpecMetrics == InitMetrics /\ [][NextMetrics]_vars

\* ----------------------------------------------------------------- claims
AllTimedOut(log) == \A k \in 1..Len(log) : log[k].event = "ReadTimeout"

LastStatus(log) == IF log = <<>> THEN 0 ELSE log[Len(log)].status_code

Failed(result) == result.type \notin {"none", "returned"}

\* C1: a fetch all of whose attempts end in ReadTimeout issues exactly
\* `attempts` network calls, then fails with the timeout DataFetchError of
\* that helper and returns nothing; before the last attempt it is still
\* running, and no call is ever issued beyond the bound or after the failure.
C1_TimeoutRetriesExactlyBound ==
  /\ Len(priceLog) <= attempts /\ Len(infoLog) <= attempts
  /\ (AllTimedOut(priceLog) /\ Len(priceLog) = attempts)
       => priceResult = TimeoutPrice /\ stock_data = <<>> /\ pc = "idle"
  /\ (AllTimedOut(priceLog) /\ priceLog # <<>> /\ Len(priceLog) < attempts)
       => priceResult = NoExc /\ pc = "price"
  /\ priceResult = TimeoutPrice
       => AllTimedOut(priceLog) /\ Len(priceLog) = attempts
  /\ (AllTimedOut(infoLog) /\ Len(infoLog) = attempts)
       => infoResult = TimeoutInfo /\ info = EmptySnapshot /\ pc = "idle"
  /\ (AllTimedOut(infoLog) /\ infoLog # <<>> /\ Len(infoLog) < attempts)
       => infoResult = NoExc /\ pc = "info"
  /\ infoResult = TimeoutInfo
       => AllTimedOut(infoLog) /\ Len(infoLog) = attempts

C1_Witness ==
  /\ attempts = DefaultAttempts
  /\ priceResult = TimeoutPrice
  /\ Len(priceLog) = DefaultAttempts
  /\ ui.error.text = "X RapidAPI server timed out. Try again shortly."

NeverRetried429(log, result) ==
  /\ \A k \in 1..Len(log) :
       log[k].status_code = 429 => k = Len(log) /\ result = QuotaExceeded
  /\ (log # <<>> /\ log[1].status_code = 429) => Len(log) = 1

\* C2: a fetch whose request is answered with HTTP 429 fails with the
\* quota-exceeded DataFetchError at once: the 429 is the last network call of
\* the invocation, and the only one when it answers the first request.
C2_QuotaFailsWithoutRetry ==
  /\ NeverRetried429(priceLog, priceResult)
  /\ NeverRetried429(infoLog, infoResult)
  /\ LastStatus(priceLog) = 429 => stock_data = <<>> /\ pc = "idle"
  /\ LastStatus(infoLog) = 429 => info = EmptySnapshot /\ pc = "idle"

C2_Witness ==
  /\ attempts = DefaultAttempts
  /\ priceResult = Returned
  /\ infoResult = QuotaExceeded
  /\ Len(infoLog) = 1
  /\ infoLog[1].status_code = 429

\* C3: a fetch answered with HTTP 404 fails with the ticker-not-found
\* DataFetchError, for get_stock_data and for get_stock_info alike.
C3_NotFoundFailsAsSymbolNotFound ==
  /\ LastStatus(priceLog) = 404 => priceResult = TickerNotFound(ticker)
  /\ LastStatus(infoLog) = 404 => infoResult = TickerNotFound(ticker)

\* C4: once get_stock_data or get_stock_info has failed, the run is over with
\* an error box and nothing else of the main action: no step after the
\* fetches was begun and none of the rendered elements is on the page.
C4_FetchFailureAbortsBeforeRendering ==
  (Failed(priceResult) \/ Failed(infoResult)) =>
    /\ pc = "idle"
    /\ ui.error.widget = "st.error"
    /\ ui.elems \cap RenderedElems = {}
    /\ \A k \in 1..Len(steps) : steps[k] \in {"price", "info"}
    /\ key_metrics = NoMetrics
    /\ Failed(priceResult) => infoLog = <<>> /\ infoResult = NoExc

C4_Witness ==
  /\ priceResult = Returned
  /\ stock_data # <<>>
  /\ infoResult = NoFundamentals(ticker)
  /\ pc = "idle"
  /\ ui.elems = {"fact"}

DataFetchMessages ==
  {TimeoutPrice.msg, TimeoutInfo.msg, QuotaExceeded.msg}
    \cup {TickerNotFound(t).msg : t \in Tickers}
    \cup {NoPriceData(t).msg : t \in Tickers}
    \cup {NoFundamentals(t).msg : t \in Tickers}

\* C5: whatever fails during a "Get Insights" request, the page shows one of
\* the human-readable failure messages, never raw exception text or a
\* traceback.
C5_NoRawExceptionShown ==
  steps # <<>> =>
    /\ ui.error.widget # "st.exception"
    /\ ui.error.widget = "st.error" =>
         ui.error.text \in {"X " \o m : m \in DataFetchMessages}

\* The price points of the answer get_stock_data received.
ReceivedItems == priceLog[Len(priceLog)].body.data.items[1]

Count(seq, x) == Cardinality({k \in 1..Len(seq) : seq[k] = x})

NoDuplicateDates(df) ==
  \A a, b \in 1..Len(df) : a # b => df[a].Date # df[b].Date

StrictlyAscending(df) ==
  \A k \in 1..(Len(df) - 1) :
    TimestampLeq(df[k].Date, df[k + 1].Date) /\ df[k].Date # df[k + 1].Date

FetchedFromProvider == priceResult = Returned /\ priceLog # <<>>

\* C6 as stated: the returned PriceSeries has N rows, ascending by timestamp,
\* and no timestamp twice.
C6_SortedWithoutDuplicates ==
  FetchedFromProvider =>
    /\ Len(stock_data) = Len(ReceivedItems)
    /\ IsSortedByDate(stock_data)
    /\ NoDuplicateDates(stock_data)

\* C6 as amended: the returned PriceSeries holds exactly the N received points
\* (each as often as received, date converted, close kept), in non-decreasing
\* timestamp order; its timestamps are free of duplicates exactly when the
\* received dates are.
C6_SortedKeepingEveryPoint ==
  FetchedFromProvider =>
    /\ Len(stock_data) = Len(ReceivedItems)
    /\ Len(stock_data) >= 1
    /\ IsSortedByDate(stock_data)
    /\ \A it \in Items :
         Count(stock_data, [Date |-> to_datetime(it.date), Close |-> it.close])
           = Count(ReceivedItems, it)
    /\ NoDuplicateDates(stock_data)
         <=> (\A a, b \in 1..Len(ReceivedItems) :
                a # b => ReceivedItems[a].date # ReceivedItems[b].date)
    /\ NoDuplicateDates(stock_data) => StrictlyAscending(stock_data)

C6_Witness ==
  /\ FetchedFromProvider
  /\ Len(ReceivedItems) = MaxPoints
  /\ ReceivedItems[1].date > ReceivedItems[MaxPoints].date
  /\ \E a, b \in 1..Len(ReceivedItems) :
       a # b /\ ReceivedItems[a].date = ReceivedItems[b].date

EmptyPriceArray(entry) ==
  /\ entry.event = "response"
  /\ entry.status_code \notin {429, 404}
  /\ entry.body.json
  /\ \/ entry.body.data = EmptyData
     \/ entry.body.data.items = <<>>
     \/ entry.body.data.items = << <<>> >>

\* C7: a received answer whose JSON is empty, lacks "items" or has an empty
\* "items" array makes get_stock_data fail with the no-price-data
\* DataFetchError; no returned PriceSeries is ever empty.
C7_EmptyArrayIsNoData ==
  /\ (priceLog # <<>> /\ EmptyPriceArray(priceLog[Len(priceLog)]))
       => priceResult = NoPriceData(ticker) /\ stock_data = <<>> /\ pc = "idle"
  /\ priceResult = Returned => Len(stock_data) >= 1

C7_Witness ==
  /\ priceLog # <<>>
  /\ priceLog[Len(priceLog)].status_code = 200
  /\ priceLog[Len(priceLog)].body.json
  /\ priceLog[Len(priceLog)].body.data.items = << <<>> >>
  /\ priceResult = NoPriceData(ticker)

Extracted == pc # "extract"

\* C8 as stated: every canonical key is present, a key whose source field is
\* missing maps to exactly "N/A", and the empty snapshot maps all eight keys
\* to "N/A".
C8_MissingFieldsAreNA ==
  Extracted =>
    /\ DOMAIN key_metrics = CanonicalKeys
    /\ info = EmptySnapshot => \A k \in CanonicalKeys : key_metrics[k] = NA
    /\ ~Has(info, "price") => key_metrics["Previous Close"] = NA /\ key_metrics["Open"] = NA
    /\ ~Has(info, "summaryDetail") =>
         /\ key_metrics["Bid"] = NA
         /\ key_metrics["Day's Range"] = NA
         /\ key_metrics["Average Volume"] = NA
         /\ key_metrics["Market Cap"] = NA
    /\ ~Has(info, "calendarEvents") => key_metrics["Earnings Date"] = NA
    /\ ~Has(info, "financialData") => key_metrics["1-Year Target Estimate"] = NA

Populated(w) == w # <<>> /\ w[1].raw # <<>> /\ w[1].fmt # <<>>

FullyPopulated(snapshot) ==
  /\ Has(snapshot, "price")
  /\ Populated(snapshot.price[1].regularMarketPreviousClose)
  /\ Populated(snapshot.price[1].regularMarketOpen)
  /\ Has(snapshot, "summaryDetail")
  /\ \A f \in {"bid", "dayLow", "dayHigh", "averageVolume", "marketCap"} :
       Populated(snapshot.summaryDetail[1][f])
  /\ Has(snapshot, "calendarEvents")
  /\ Has(snapshot.calendarEvents[1], "earnings")
  /\ snapshot.calendarEvents[1].earnings[1] # <<>>
  /\ \A k \in 1..Len(snapshot.calendarEvents[1].earnings[1]) :
       snapshot.calendarEvents[1].earnings[1][k].fmt # <<>>
  /\ Has(snapshot, "financialData")
  /\ Populated(snapshot.financialData[1].targetMeanPrice)

\* C9: for a snapshot with every mapped field populated the result is exactly
\* the eight canonical pairs: each raw value unchanged, the day's low and high
\* joined into one range text, the market cap as formatted by the provider,
\* the earnings date of the first candidate; unmapped fields play no part.
C9_PopulatedSnapshotRoundTrip ==
  (Extracted /\ FullyPopulated(info)) =>
    LET price   == info.price[1]
        summary == info.summaryDetail[1]
    IN  /\ DOMAIN key_metrics = CanonicalKeys
        /\ key_metrics["Previous Close"] = price.regularMarketPreviousClose[1].raw[1]
        /\ key_metrics["Open"] = price.regularMarketOpen[1].raw[1]
        /\ key_metrics["Bid"] = summary.bid[1].raw[1]
        /\ key_metrics["Day's Range"] =
             summary.dayLow[1].raw[1] \o " - " \o summary.dayHigh[1].raw[1]
        /\ key_metrics["Average Volume"] = summary.averageVolume[1].raw[1]
        /\ key_metrics["Market Cap"] = summary.marketCap[1].fmt[1]
        /\ key_metrics["Earnings Date"] = info.calendarEvents[1].earnings[1][1].fmt[1]
        /\ key_metrics["1-Year Target Estimate"] =
             info.financialData[1].targetMeanPrice[1].raw[1]
        /\ key_metrics = extract_key_metrics([info EXCEPT !.quoteType = <<>>])

C9_Witness ==
  /\ Extracted
  /\ FullyPopulated(info)
  /\ Has(info, "quoteType")
  /\ Len(info.calendarEvents[1].earnings[1]) = 2
  /\ info.calendarEvents[1].earnings[1][1] # info.calendarEvents[1].earnings[1][2]
  /\ key_metrics["Earnings Date"] = "2024-05-08"
  /\ key_metrics["Market Cap"] = "2.5T"

PipelineOrder ==
  <<"price", "info", "extract", "summary", "explain", "sentiment", "render">>

\* C10: the steps begun in one "Get Insights" run are an initial part of
\* price, fundamentals, extraction, summary, explanation, sentiment, render,
\* each begun once; the fundamentals fetch is begun (and the network called
\* for it) only after get_stock_data returned, and extraction or any later
\* step only after both fetches returned.
C10_StrictForwardPipeline ==
  /\ Len(steps) <= Len(PipelineOrder)
  /\ \A k \in 1..Len(steps) : steps[k] = PipelineOrder[k]
  /\ pc \notin {"idle", "fact"} => steps # <<>> /\ pc = steps[Len(steps)]
  /\ (Len(steps) >= 2 \/ infoLog # <<>> \/ infoResult # NoExc)
       => priceResult = Returned
  /\ Len(steps) >= 3 => priceResult = Returned /\ infoResult = Returned
  /\ ui.elems \cap RenderedElems # {} => steps = PipelineOrder

C10_Witness ==
  /\ steps = PipelineOrder
  /\ pc = "idle"
  /\ ui.elems = RenderedElems \cup {"fact"}
  /\ priceLog # <<>>
  /\ infoLog # <<>>

====
